---- MODULE Spec2Model ----
(***************************************************************************)
(* A model of diarization-to-eaf: DiarizationProcessor (loading,           *)
(* validation, operator/caller classification) and EAFGenerator (header    *)
(* with media linkage, TIME_ORDER, tiers, static descriptors, writing).    *)
(*                                                                         *)
(* Numbers.  A raw timestamp (the JSON number of seconds) is modelled as   *)
(* an integer count of ticks, TicksPerMs ticks to the millisecond, so that *)
(* seconds * 1000 is the exact rational t / TicksPerMs and int() of it is  *)
(* a truncation that really loses information.  Binary floating-point     *)
(* rounding of the product is below the model's resolution.               *)
(*                                                                         *)
(* Strings.  A string that the code inspects by character (file names,     *)
(* relative paths) is a sequence of one-character strings.  Identifiers    *)
(* built by formatting ("ts7", "o2") are pairs <<prefix, number>>; the     *)
(* decimal rendering of a number is injective and is not modelled further. *)
(***************************************************************************)
EXTENDS Integers, Sequences, FiniteSets, Bags

\* ------------------------------------------------------------------ bounds

MaxSegs == 3        \* longest validated diarization list that is enumerated
MaxRawSegs == 2     \* longest list enumerated over all (also invalid) segments
MaxTime == 3        \* raw timestamps range over 0..MaxTime ticks
TicksPerMs == 2     \* resolution of a raw timestamp
MaxFiles == 2       \* most JSON files a batch directory holds
MaxClientSegs == 3  \* longest list a direct user of the classes starts from
MaxCalls == 2       \* most further method calls such a user makes
MaxNegTime == 3     \* raw timestamps before zero range over -MaxNegTime..-1 ticks

Speakers == {"SPEAKER_00", "SPEAKER_01"}
Times == 0 .. MaxTime

\* A diarization entry as the JSON gives it (start >= end is possible).
RawSegments == [speaker : Speakers, start : Times, end : Times]
ValidSegments == {s \in RawSegments : s.start < s.end}
\* The valid segments that end before the last tick.
EarlySegments == {s \in ValidSegments : s.end < MaxTime}

\* All sequences over S of length 0..n.
SeqsUpTo(S, n) == UNION {[1 .. k -> S] : k \in 0 .. n}

\* The validated lists that are enumerated: every list shorter than MaxSegs,
\* and the lists of length MaxSegs whose segments end before the last tick.
ValidLists ==
    SeqsUpTo(ValidSegments, MaxSegs - 1) \cup [1 .. MaxSegs -> EarlySegments]

\* An optional value: None, or Some(x) with Get(Some(x)) = x.
None == {}
Some(x) == {x}
Get(option) == CHOOSE x \in option : TRUE

\* ------------------------------------------------------------------- JSON

\* A value as json.load returns it: its Python type and its payload.  The
\* payload of a number is in ticks; True and False count as 1 and 0 seconds.
TicksPerSecond == 1000 * TicksPerMs
JStr(s) == [type |-> "str", str |-> s, num |-> 0]
JNum(n) == [type |-> "number", str |-> "", num |-> n]
JBool(b) == [type |-> "bool", str |-> "",
             num |-> IF b THEN TicksPerSecond ELSE 0]
JNull == [type |-> "NoneType", str |-> "", num |-> 0]

\* A dict is a function from its keys to values; a value that is no dict is
\* one of the records above.
IsDict(value) == "type" \notin DOMAIN value
\* isinstance(value, str)
IsStr(value) == value.type = "str"
\* isinstance(value, (int, float)): bool is a subclass of int.
IsNumber(value) == value.type \in {"number", "bool"}

\* The JSON entry of a segment, and the diarization list of a list of segments.
JsonEntry(segment) ==
    [speaker |-> JStr(segment.speaker),
     start |-> JNum(segment.start),
     end |-> JNum(segment.end)]
JsonDoc(data) == [k \in 1 .. Len(data) |-> JsonEntry(data[k])]

\* The segment dict as the processor and the generator read it once the
\* entry has passed validation.
Segment(entry) ==
    [speaker |-> entry.speaker.str,
     start |-> entry.start.num,
     end |-> entry.end.num]
Segments(doc) == [k \in 1 .. Len(doc) |-> Segment(doc[k])]

\* Entries with every defect the validator looks for, and some it does not:
\* any subset of the three keys, speakers that are a label, the empty
\* string, a number or null, bounds that are a number, a string or a boolean,
\* and an entry that is no dict.
EntryKeys == {"speaker", "start", "end"}
EntryValues(key) ==
    CASE key = "speaker" -> {JStr("SPEAKER_00"), JStr(""), JNum(0), JNull}
      [] key = "start" -> {JNum(0), JNum(1), JStr("invalid"), JBool(FALSE)}
      [] key = "end" -> {JNum(1), JStr("invalid"), JBool(TRUE)}
AnyEntryValues == UNION {EntryValues(key) : key \in EntryKeys}
JsonEntries ==
    UNION {{entry \in [keys -> AnyEntryValues] :
                \A key \in keys : entry[key] \in EntryValues(key)} :
           keys \in SUBSET EntryKeys}
    \cup {JNull}

\* ---------------------------------------------------------------- strings

DOT == "."
SLASH == "/"
BACKSLASH == "\\"

JSON_SUFFIX == <<".", "j", "s", "o", "n">>
WAV_SUFFIX == <<".", "w", "a", "v">>

StartsWith(s, c) == Len(s) > 0 /\ s[1] = c

\* str.replace(old, new) for one-character old and new.
Replace(s, old, new) == [i \in 1 .. Len(s) |-> IF s[i] = old THEN new ELSE s[i]]

\* sep.join(parts): the parts' characters with sep between consecutive parts.
RECURSIVE JoinParts(_, _)
JoinParts(parts, sep) ==
    IF Len(parts) = 0 THEN <<>>
    ELSE IF Len(parts) = 1 THEN parts[1]
    ELSE parts[1] \o <<sep>> \o JoinParts(Tail(parts), sep)

\* ------------------------------------------------------------------ paths
\* A path is the sequence of its components, each a string, relative to the
\* working directory (no ".." components are enumerated).

\* Index of the last "." of a name, 0 when there is none (str.rfind + 1).
RECURSIVE LastDot(_, _)
LastDot(name, k) ==
    IF k = 0 THEN 0
    ELSE IF name[k] = DOT THEN k
    ELSE LastDot(name, k - 1)

\* pathlib's PurePath.stem: the name without its last suffix; a leading dot
\* or a trailing dot starts no suffix.
Stem(name) ==
    LET k == LastDot(name, Len(name))
    IN  IF 1 < k /\ k < Len(name) THEN SubSeq(name, 1, k - 1) ELSE name

ParentOf(path) == SubSeq(path, 1, Len(path) - 1)
NameOf(path) == path[Len(path)]

\* Length of the longest common prefix of two component lists.
RECURSIVE CommonPrefixLen(_, _)
CommonPrefixLen(a, b) ==
    IF Len(a) = 0 \/ Len(b) = 0 \/ a[1] # b[1] THEN 0
    ELSE 1 + CommonPrefixLen(Tail(a), Tail(b))

\* os.path.relpath(path, start) for paths under one working directory:
\* one ".." per component of start below the common prefix, then the rest of
\* path, joined by the platform's separator.
RelPath(path, start, sep) ==
    LET i == CommonPrefixLen(start, path)
        rel_list == [j \in 1 .. (Len(start) - i) |-> <<DOT, DOT>>]
                        \o SubSeq(path, i + 1, Len(path))
    IN  IF Len(rel_list) = 0 THEN <<DOT>> ELSE JoinParts(rel_list, sep)

\* Path.absolute().as_posix(): the working directory is the root "/".
AbsPosix(path) == <<SLASH>> \o JoinParts(path, SLASH)

\* ------------------------------------------------- DiarizationProcessor
\* (the pure parts; the methods' effects on the object are the actions below)

\* _validate_json's per-entry checks, in the code's order: the entry is a
\* dict, has the three keys, speaker is a str, start and end are int or
\* float, and start < end.
ValidSegment(segment) ==
    /\ IsDict(segment)
    /\ EntryKeys \subseteq DOMAIN segment
    /\ IsStr(segment.speaker)
    /\ IsNumber(segment.start)
    /\ IsNumber(segment.end)
    /\ ~(segment.start.num >= segment.end.num)

\* What opening and parsing the input file can give: a dict with jobId,
\* status and output.diarization (a list), parsed data of any other shape,
\* text that is not JSON, or no readable file.
JsonFileStates == {"document", "malformed", "not_json", "unreadable"}

\* load_json_file: the exception it re-raises, if any.
LoadError(file_state) ==
    CASE file_state = "unreadable" -> Some("OSError")
      [] file_state = "not_json" -> Some("JSONDecodeError")
      [] OTHER -> None

\* _validate_json on a document whose top level is well formed.
_validate_json(doc) == \A i \in 1 .. Len(doc) : ValidSegment(doc[i])

\* Faulty variant: the operator is the speaker of the segment that starts first.
OperatorSpeakerByStart(data) ==
    LET first == CHOOSE i \in 1 .. Len(data) :
                    \A j \in 1 .. Len(data) :
                        \/ data[i].start < data[j].start
                        \/ (data[i].start = data[j].start /\ i <= j)
    IN  data[first].speaker

\* _determine_speakers: the operator is the first entry's speaker ...
OperatorSpeaker(data) == data[1].speaker

\* Faulty variant: every speaker that occurs is taken for a caller.
CallerSpeakersAll(data, operator) ==
    {data[i].speaker : i \in 1 .. Len(data)}

\* ... and the callers are the other speakers that occur.
CallerSpeakers(data, operator) ==
    {data[i].speaker : i \in {j \in 1 .. Len(data) : data[j].speaker # operator}}

\* Faulty variant: an entry equal to one already in the list is not appended again.
RECURSIVE AppendNewSegments(_, _, _)
AppendNewSegments(data, operator, acc) ==
    IF Len(data) = 0 THEN acc
    ELSE AppendNewSegments(
            Tail(data), operator,
            IF Head(data).speaker = operator
                  /\ \A k \in 1 .. Len(acc) : acc[k] # Head(data)
            THEN Append(acc, Head(data)) ELSE acc)

OperatorSegmentsDeduplicated(data, operator) ==
    AppendNewSegments(data, operator, <<>>)

\* process_diarization_data's loop: in input order, an entry goes to the
\* operator list when its speaker is the operator, else to the caller list.
OperatorSegments(data, operator) ==
    SelectSeq(data, LAMBDA segment : segment.speaker = operator)

CallerSegments(data, operator) ==
    SelectSeq(data, LAMBDA segment : ~(segment.speaker = operator))

\* ----------------------------------------------------------- EAFGenerator

\* dict[key] = value
Put(map, key, value) ==
    [k \in DOMAIN map \cup {key} |-> IF k = key THEN value ELSE map[k]]

\* int(x): truncation toward zero of the exact quotient a / b, b > 0.
TruncDiv(a, b) == IF a >= 0 THEN a \div b ELSE -((-a) \div b)

\* Faulty variant: round(seconds * 1000), halves up, in place of int(...).
ToMillisRounded(t) == (2 * t + TicksPerMs) \div (2 * TicksPerMs)

\* Faulty variant: math.floor(seconds * 1000) in place of int(...).
ToMillisFloor(t) == t \div TicksPerMs

\* int(segment[...] * 1000) of a raw timestamp of t ticks.
ToMillis(t) == TruncDiv(t, TicksPerMs)

\* sorted(..., key=start) is stable: an entry goes behind every entry whose
\* start is not greater than its own.
RECURSIVE InsertByStart(_, _)
InsertByStart(sorted, segment) ==
    IF Len(sorted) = 0 THEN <<segment>>
    ELSE IF Head(sorted).start <= segment.start
         THEN <<Head(sorted)>> \o InsertByStart(Tail(sorted), segment)
         ELSE <<segment>> \o sorted

RECURSIVE SortedByStart(_)
SortedByStart(segments) ==
    IF Len(segments) = 0 THEN <<>>
    ELSE InsertByStart(SortedByStart(SubSeq(segments, 1, Len(segments) - 1)),
                       segments[Len(segments)])

\* Faulty variant: the factor 2 of the slot numbering is forgotten.
StartSlotIdUnscaled(i) == <<"ts", i + 1>>

\* f"ts{i*2+1}", i the 0-based index of the segment in start order
StartSlotId(i) == <<"ts", i * 2 + 1>>

\* Faulty variant: the end slot reuses the start slot's number.
EndSlotIdOfStart(i) == <<"ts", i * 2 + 1>>

\* f"ts{i*2+2}"
EndSlotId(i) == <<"ts", i * 2 + 2>>

\* Faulty variant: the end of a segment is never entered in the lookup.
RegisterStartOnly(map, segment, start_slot, end_slot) ==
    Put(map, segment.start, start_slot.TIME_SLOT_ID)

\* The two time_slot_map assignments of one iteration, start then end.
RegisterSlots(map, segment, start_slot, end_slot) ==
    Put(Put(map, segment.start, start_slot.TIME_SLOT_ID),
        segment.end, end_slot.TIME_SLOT_ID)

\* Faulty variant: one slot per distinct raw value, numbered in order of appearance;
\* a value already in the lookup gets no new slot.
RECURSIVE TimeSlotLoopDeduplicated(_, _, _, _)
TimeSlotLoopDeduplicated(all_segments, i, order, map) ==
    IF i = Len(all_segments) THEN [time_order |-> order, time_slot_map |-> map]
    ELSE
        LET segment == all_segments[i + 1]
            order1 == IF segment.start \in DOMAIN map THEN order
                      ELSE Append(order,
                              [TIME_SLOT_ID |-> <<"ts", Len(order) + 1>>,
                               TIME_VALUE |-> ToMillis(segment.start)])
            map1 == IF segment.start \in DOMAIN map THEN map
                    ELSE Put(map, segment.start, <<"ts", Len(order) + 1>>)
            order2 == IF segment.end \in DOMAIN map1 THEN order1
                      ELSE Append(order1,
                              [TIME_SLOT_ID |-> <<"ts", Len(order1) + 1>>,
                               TIME_VALUE |-> ToMillis(segment.end)])
            map2 == IF segment.end \in DOMAIN map1 THEN map1
                    ELSE Put(map1, segment.end, <<"ts", Len(order1) + 1>>)
        IN  TimeSlotLoopDeduplicated(all_segments, i + 1, order2, map2)

\* The loop of _create_time_order from iteration i on: two TIME_SLOT elements
\* per segment, appended to TIME_ORDER, each entered in time_slot_map under
\* the raw timestamp it was made from.
RECURSIVE TimeSlotLoop(_, _, _, _)
TimeSlotLoop(all_segments, i, order, map) ==
    IF i = Len(all_segments) THEN [time_order |-> order, time_slot_map |-> map]
    ELSE
        LET segment == all_segments[i + 1]
            start_slot == [TIME_SLOT_ID |-> StartSlotId(i),
                           TIME_VALUE |-> ToMillis(segment.start)]
            end_slot == [TIME_SLOT_ID |-> EndSlotId(i),
                         TIME_VALUE |-> ToMillis(segment.end)]
        IN  TimeSlotLoop(all_segments, i + 1,
                         order \o <<start_slot, end_slot>>,
                         RegisterSlots(map, segment, start_slot, end_slot))

\* tier_id.lower()[0]
LowerFirst(tier_id) ==
    CASE tier_id = "Operator" -> "o"
      [] tier_id = "Caller" -> "c"

\* Faulty variant: the sequence number is the 0-based loop index.
AnnotationIdZeroBased(tier_id, i) == <<LowerFirst(tier_id), i>>

\* f"{tier_id.lower()[0]}{i+1}"
AnnotationId(tier_id, i) == <<LowerFirst(tier_id), i + 1>>

\* Faulty variant: the end reference is taken to be the slot numbered after the
\* start's slot, not the slot looked up for the end value.
EndRefAfterStart(map, segment) == <<"ts", map[segment.start][2] + 1>>

StartRef(map, segment) == map[segment.start]
EndRef(map, segment) == map[segment.end]

\* Whether building a tier from these segments raises KeyError.
LookupMisses(segments, map) ==
    \E k \in 1 .. Len(segments) :
        segments[k].start \notin DOMAIN map \/ segments[k].end \notin DOMAIN map

\* _create_tier: one TIER with one ALIGNABLE_ANNOTATION per segment, in the
\* order of the segment list.
_create_tier(tier_id, segments, map) ==
    [TIER_ID |-> tier_id,
     LINGUISTIC_TYPE_REF |-> "default-lt",
     annotations |->
        [k \in 1 .. Len(segments) |->
            [ANNOTATION_ID |-> AnnotationId(tier_id, k - 1),
             TIME_SLOT_REF1 |-> StartRef(map, segments[k]),
             TIME_SLOT_REF2 |-> EndRef(map, segments[k])]]]

\* ------------------------------------------------------- media linkage

FILE_SCHEME == <<"f", "i", "l", "e", ":", "/", "/">>

\* f"{json_path.stem}.wav"
WavName(json_file_path) == Stem(NameOf(json_file_path)) \o WAV_SUFFIX

\* _get_relative_media_url.  The existence of the file is not consulted.
_get_relative_media_url(json_file_path, media_dir_, sep) ==
    LET wav_name == WavName(json_file_path)
        rel_path == IF media_dir_ # None
                    THEN RelPath(Append(Get(media_dir_), wav_name),
                                 ParentOf(json_file_path), sep)
                    ELSE wav_name
        rel_posix == Replace(rel_path, sep, SLASH)
    IN  IF ~StartsWith(rel_posix, DOT) THEN <<DOT, SLASH>> \o rel_posix
        ELSE rel_posix

\* The companion file's path: in media_dir when given, else beside the JSON.
WavPath(json_file_path, media_dir_) ==
    IF media_dir_ # None
    THEN Append(Get(media_dir_), WavName(json_file_path))
    ELSE Append(ParentOf(json_file_path), WavName(json_file_path))

\* Faulty variant: the URL is formed whether or not the file exists.
MediaUrlUnchecked(json_file_path, media_dir_, files) ==
    FILE_SCHEME \o AbsPosix(WavPath(json_file_path, media_dir_))

\* _get_media_url: "" when the companion file does not exist.
_get_media_url(json_file_path, media_dir_, files) ==
    LET wav_path == WavPath(json_file_path, media_dir_)
    IN  IF wav_path \notin files THEN <<>>
        ELSE FILE_SCHEME \o AbsPosix(wav_path)

\* The four fixed CONSTRAINT stereotypes, in document order.
CONSTRAINT_STEREOTYPES ==
    <<"Time_Subdivision", "Symbolic_Subdivision", "Symbolic_Association",
      "Included_In">>

\* ------------------------------------------------------------------ state

VARIABLES
    json_file_state,    \* what opening and parsing the input file gives
    json_doc,           \* the diarization list of the input JSON file
    json_file_path,     \* the input file's path (components)
    media_dir,          \* the media directory (components), optional
    os_sep,             \* the platform's path separator
    fs,                 \* the paths of the files that exist
    pc,                 \* how far process_file has come
    error,              \* the exception process_file caught, optional
    diarization_data,   \* DiarizationProcessor.diarization_data
    operator_speaker,   \* DiarizationProcessor.operator_speaker
    caller_speakers,    \* DiarizationProcessor.caller_speakers
    operator_segments,  \* EAFGenerator.operator_segments
    caller_segments,    \* EAFGenerator.caller_segments
    root,               \* the tags of root's children in order, optional
    header,             \* the MEDIA_DESCRIPTOR attributes, optional
    time_order,         \* the TIME_SLOT elements of TIME_ORDER, optional
    time_slot_map,      \* EAFGenerator.time_slot_map
    tiers,              \* the TIER elements, in document order
    written,            \* the document written to the output path, optional
    output_file,        \* what the output path holds
    trace,              \* the methods process_file has called, in order
    directory,          \* batch mode: the files input_dir.glob yields
    handed,             \* how many of them the loop has handed to process_file
    finished,           \* the outcome of every process_file call so far
    force,              \* --force
    exit_code,          \* main's exit status once it has exited, optional
    calls,              \* the further method calls a client has made
    speaker_info,       \* what get_speaker_info last returned, optional
    previous_document   \* the document of a client's preceding generate_eaf

vars ==
    <<json_file_state, json_doc, json_file_path, media_dir, os_sep, fs, pc,
      error, diarization_data, operator_speaker, caller_speakers,
      operator_segments, caller_segments, root, header, time_order,
      time_slot_map, tiers, written, output_file, trace, directory, handed,
      finished, force, exit_code, calls, speaker_info, previous_document>>

input_vars ==
    <<json_file_state, json_doc, json_file_path, media_dir, os_sep, fs>>
main_vars == <<directory, handed, finished, force, exit_code>>
\* The files outside the call in progress: main's state and the output path.
outside_vars == <<main_vars, output_file>>
client_vars == <<calls, speaker_info, previous_document>>
processor_vars == <<diarization_data, operator_speaker, caller_speakers>>
segment_vars == <<operator_segments, caller_segments>>
document_vars == <<root, header, time_order, time_slot_map, tiers>>

\* File and directory names the paths are made of.
F_JSON == <<"f">> \o JSON_SUFFIX
DIGITS == <<"1", "2", "3", "4", "5", "6", "7", "8", "9">>
NumberedJson(k) == <<"f", DIGITS[k]>> \o JSON_SUFFIX
HIDDEN_JSON == <<".", "h">> \o JSON_SUFFIX
DirNames == {<<"p">>, <<"m">>, <<".", "m">>}

JsonPaths ==
    {<<n>> : n \in {F_JSON, HIDDEN_JSON}}
        \cup {<<<<"p">>, n>> : n \in {F_JSON, HIDDEN_JSON}}

MediaDirs ==
    {None, Some(<<>>)} \cup {Some(<<d>>) : d \in DirNames}
        \cup {Some(<<<<"p">>, d>>) : d \in DirNames \ {<<"p">>}}

\* The state of a freshly constructed processor and generator, nothing
\* caught, nothing called and nothing written yet.
FreshObjects ==
    /\ error = None
    /\ diarization_data = <<>>
    /\ operator_speaker = ""
    /\ caller_speakers = {}
    /\ operator_segments = <<>>
    /\ caller_segments = <<>>
    /\ root = None
    /\ header = None
    /\ time_order = None
    /\ time_slot_map = <<>>
    /\ tiers = <<>>
    /\ written = None
    /\ trace = <<>>

\* process_file is about to construct the processor.
Fresh ==
    /\ pc = "start"
    /\ FreshObjects

\* main in --input-file mode: one process_file call on a file whose output
\* does not exist yet, and no other user of the two classes.
SingleFile ==
    /\ output_file = "absent"
    /\ directory = <<>>
    /\ handed = 0
    /\ finished = <<>>
    /\ force = FALSE
    /\ exit_code = None
    /\ calls = 0
    /\ speaker_info = None
    /\ previous_document = None

\* A validated list of ValidLists or any short list of raw segments; the
\* file f.json in the working directory, no media directory, no companion
\* file.
Init ==
    /\ json_file_state = "document"
    /\ \E data \in ValidLists \cup SeqsUpTo(RawSegments, MaxRawSegs) :
            json_doc = JsonDoc(data)
    /\ json_file_path = <<F_JSON>>
    /\ media_dir = None
    /\ os_sep = SLASH
    /\ fs = {}
    /\ Fresh
    /\ SingleFile

\* Any placement of the JSON file, the media directory and the companion
\* file, on either kind of platform; a diarization list of at most one entry.
InitMedia ==
    /\ json_file_state = "document"
    /\ \E data \in SeqsUpTo(RawSegments, 1) : json_doc = JsonDoc(data)
    /\ json_file_path \in JsonPaths
    /\ media_dir \in MediaDirs
    /\ os_sep \in {SLASH, BACKSLASH}
    /\ fs \in SUBSET {WavPath(json_file_path, None),
                      WavPath(json_file_path, media_dir)}
    /\ Fresh
    /\ SingleFile

\* Timestamps on both sides of zero: the validator compares start with end
\* only, so a document may carry them.
SignedTimes == -MaxNegTime .. MaxTime
SignedSegments ==
    {s \in [speaker : Speakers, start : SignedTimes, end : SignedTimes] :
        s.start < s.end}

\* Any single valid entry over the signed range, and any two valid entries
\* that end at or before zero; the file f.json as in Init.
InitSigned ==
    /\ json_file_state = "document"
    /\ \E data \in SeqsUpTo(SignedSegments, 1)
                    \cup [1 .. 2 -> {s \in SignedSegments : s.end <= 0}] :
            json_doc = JsonDoc(data)
    /\ json_file_path = <<F_JSON>>
    /\ media_dir = None
    /\ os_sep = SLASH
    /\ fs = {}
    /\ Fresh
    /\ SingleFile

\* Any file state and any diarization list over entries with and without
\* defects; the file f.json as in Init.
InitValidate ==
    /\ json_file_state \in JsonFileStates
    /\ json_doc \in IF json_file_state = "document"
                     THEN SeqsUpTo(JsonEntries, MaxRawSegs)
                     ELSE {<<>>}
    /\ json_file_path = <<F_JSON>>
    /\ media_dir = None
    /\ os_sep = SLASH
    /\ fs = {}
    /\ Fresh
    /\ SingleFile

\* The files of a batch directory: unreadable, not JSON, of the wrong top
\* level shape, or a document whose diarization list is empty, has one or two
\* valid entries, or has an entry with start >= end; the output file of each
\* exists already or not.
BatchDocs ==
    {<<>>,
     JsonDoc(<<[speaker |-> "SPEAKER_00", start |-> 0, end |-> 1]>>),
     JsonDoc(<<[speaker |-> "SPEAKER_00", start |-> 0, end |-> 1],
               [speaker |-> "SPEAKER_01", start |-> 1, end |-> 2]>>),
     JsonDoc(<<[speaker |-> "SPEAKER_00", start |-> 1, end |-> 1]>>)}
BatchFiles ==
    {[json_file_state |-> file_state, json_doc |-> doc,
      output_exists |-> exists] :
        file_state \in JsonFileStates \ {"document"}, doc \in {<<>>},
        exists \in BOOLEAN}
    \cup [json_file_state : {"document"}, json_doc : BatchDocs,
          output_exists : BOOLEAN]

\* main in --input-dir mode, before the loop: any directory of at most
\* MaxFiles files, with or without --force; no file has been opened yet.
InitBatch ==
    /\ directory \in SeqsUpTo(BatchFiles, MaxFiles)
    /\ force \in BOOLEAN
    /\ handed = 0
    /\ finished = <<>>
    /\ exit_code = None
    /\ output_file = "absent"
    /\ calls = 0
    /\ speaker_info = None
    /\ previous_document = None
    /\ json_file_state = "unreadable"
    /\ json_doc = <<>>
    /\ json_file_path = <<>>
    /\ media_dir = None
    /\ os_sep = SLASH
    /\ fs = {}
    /\ pc = "idle"
    /\ FreshObjects

\* A direct user of the two classes (as the unit tests are): the lists it
\* starts from have up to three speakers and segments that share a boundary;
\* the documents it may put in the file's place before loading again are the
\* empty list, a list of another speaker, and a list that fails validation.
ClientSegments ==
    [speaker : Speakers \cup {"SPEAKER_02"}, start : {0}, end : {1}]
    \cup [speaker : Speakers \cup {"SPEAKER_02"}, start : {1}, end : {2}]
ReloadDocs ==
    {<<>>,
     JsonDoc(<<[speaker |-> "SPEAKER_02", start |-> 0, end |-> 1]>>),
     JsonDoc(<<[speaker |-> "SPEAKER_00", start |-> 1, end |-> 1]>>)}

InitClient ==
    /\ json_file_state = "document"
    /\ \E data \in SeqsUpTo(ClientSegments, MaxClientSegs) :
            json_doc = JsonDoc(data)
    /\ json_file_path = <<F_JSON>>
    /\ media_dir = None
    /\ os_sep = SLASH
    /\ fs = {}
    /\ Fresh
    /\ SingleFile

\* ---------------------------------------------------------------- actions
\* process_file runs the methods in program order; an exception of any of
\* them is caught there and ends the run of the file (pc = "failed").

\* DiarizationProcessor.load_and_validate_data: load_json_file re-raises the
\* error of open or of json.load; data that is falsy or lacks the top-level
\* shape, or an entry that fails, is a ValueError; else the list is stored.
load_and_validate_data ==
    /\ pc = "start"
    /\ trace' = Append(trace, "load_and_validate_data")
    /\ IF LoadError(json_file_state) # None
       THEN /\ pc' = "failed"
            /\ error' = LoadError(json_file_state)
            /\ UNCHANGED diarization_data
       ELSE IF json_file_state = "malformed" \/ ~_validate_json(json_doc)
       THEN /\ pc' = "failed"
            /\ error' = Some("ValueError")
            /\ UNCHANGED diarization_data
       ELSE /\ diarization_data' = Segments(json_doc)
            /\ pc' = "loaded"
            /\ UNCHANGED error
    /\ UNCHANGED <<outside_vars, client_vars>>
    /\ UNCHANGED <<input_vars, operator_speaker, caller_speakers,
                   segment_vars, document_vars, written>>

\* Faulty variant: the speaker attributes are cleared before the data is
\* found to be empty.
process_diarization_data_clearing ==
    /\ pc = "loaded"
    /\ trace' = Append(trace, "process_diarization_data")
    /\ IF Len(diarization_data) = 0
       THEN /\ pc' = "failed"
            /\ error' = Some("ValueError")
            /\ operator_speaker' = ""
            /\ caller_speakers' = {}
            /\ UNCHANGED segment_vars
       ELSE /\ operator_speaker' = OperatorSpeaker(diarization_data)
            /\ caller_speakers' =
                    CallerSpeakers(diarization_data, operator_speaker')
            /\ operator_segments' =
                    OperatorSegments(diarization_data, operator_speaker')
            /\ caller_segments' =
                    CallerSegments(diarization_data, operator_speaker')
            /\ pc' = "processed"
            /\ UNCHANGED error
    /\ UNCHANGED <<outside_vars, client_vars>>
    /\ UNCHANGED <<input_vars, diarization_data, document_vars, written>>

\* DiarizationProcessor.process_diarization_data, with _determine_speakers;
\* the two lists it returns are handed to EAFGenerator's constructor.
process_diarization_data ==
    /\ pc = "loaded"
    /\ trace' = Append(trace, "process_diarization_data")
    /\ IF Len(diarization_data) = 0
       THEN /\ pc' = "failed"
            /\ error' = Some("ValueError")
            /\ UNCHANGED <<operator_speaker, caller_speakers, segment_vars>>
       ELSE /\ operator_speaker' = OperatorSpeaker(diarization_data)
            /\ caller_speakers' =
                    CallerSpeakers(diarization_data, operator_speaker')
            /\ operator_segments' =
                    OperatorSegments(diarization_data, operator_speaker')
            /\ caller_segments' =
                    CallerSegments(diarization_data, operator_speaker')
            /\ pc' = "processed"
            /\ UNCHANGED error
    /\ UNCHANGED <<outside_vars, client_vars>>
    /\ UNCHANGED <<input_vars, diarization_data, document_vars, written>>

\* Faulty variant: the header is appended to the root element of an earlier
\* call, if there is one.
_create_header_on_kept_root ==
    /\ pc = "processed"
    /\ trace' = Append(trace, "generate_eaf")
    /\ root' = IF root = None THEN Some(<<"HEADER">>)
               ELSE Some(Append(Get(root), "HEADER"))
    /\ header' =
          Some([MIME_TYPE |-> "audio/x-wav",
                MEDIA_URL |-> _get_media_url(json_file_path, media_dir, fs),
                RELATIVE_MEDIA_URL |->
                    _get_relative_media_url(json_file_path, media_dir, os_sep)])
    /\ pc' = "header"
    /\ UNCHANGED <<outside_vars, client_vars>>
    /\ UNCHANGED <<input_vars, error, processor_vars, segment_vars,
                   time_order, time_slot_map, tiers, written>>

\* generate_eaf, first part: the root element and _create_header.
_create_header ==
    /\ pc = "processed"
    /\ trace' = Append(trace, "generate_eaf")
    /\ root' = Some(<<"HEADER">>)
    /\ header' =
          Some([MIME_TYPE |-> "audio/x-wav",
                MEDIA_URL |-> _get_media_url(json_file_path, media_dir, fs),
                RELATIVE_MEDIA_URL |->
                    _get_relative_media_url(json_file_path, media_dir, os_sep)])
    /\ pc' = "header"
    /\ UNCHANGED <<outside_vars, client_vars>>
    /\ UNCHANGED <<input_vars, error, processor_vars, segment_vars,
                   time_order, time_slot_map, tiers, written>>

\* generate_eaf: _create_time_order.
_create_time_order ==
    /\ pc = "header"
    /\ UNCHANGED trace
    /\ LET all_segments == SortedByStart(operator_segments \o caller_segments)
           built == TimeSlotLoop(all_segments, 0, <<>>, time_slot_map)
       IN  /\ time_order' = Some(built.time_order)
           /\ time_slot_map' = built.time_slot_map
    /\ root' = Some(Append(Get(root), "TIME_ORDER"))
    /\ pc' = "time_order"
    /\ UNCHANGED <<outside_vars, client_vars>>
    /\ UNCHANGED <<input_vars, error, processor_vars, segment_vars, header,
                   tiers, written>>

\* generate_eaf: _create_tiers, Operator then Caller.  A timestamp that is no
\* key of time_slot_map raises KeyError, and process_file drops the generator.
_create_tiers ==
    /\ pc = "time_order"
    /\ UNCHANGED trace
    /\ IF \/ LookupMisses(operator_segments, time_slot_map)
          \/ LookupMisses(caller_segments, time_slot_map)
       THEN /\ pc' = "failed"
            /\ error' = Some("KeyError")
            /\ UNCHANGED <<root, tiers>>
       ELSE /\ tiers' =
                  <<_create_tier("Operator", operator_segments, time_slot_map),
                    _create_tier("Caller", caller_segments, time_slot_map)>>
            /\ root' = Some(Get(root) \o <<"TIER", "TIER">>)
            /\ pc' = "tiers"
            /\ UNCHANGED error
    /\ UNCHANGED <<outside_vars, client_vars>>
    /\ UNCHANGED <<input_vars, processor_vars, segment_vars, header,
                   time_order, time_slot_map, written>>

\* generate_eaf: _create_linguistic_types.
_create_linguistic_types ==
    /\ pc = "tiers"
    /\ UNCHANGED trace
    /\ root' = Some(Append(Get(root), "LINGUISTIC_TYPE"))
    /\ pc' = "linguistic_types"
    /\ UNCHANGED <<outside_vars, client_vars>>
    /\ UNCHANGED <<input_vars, error, processor_vars, segment_vars, header,
                   time_order, time_slot_map, tiers, written>>

\* generate_eaf: _create_constraints, which ends generate_eaf.
_create_constraints ==
    /\ pc = "linguistic_types"
    /\ UNCHANGED trace
    /\ root' = Some(Get(root)
                    \o [k \in 1 .. Len(CONSTRAINT_STEREOTYPES) |-> "CONSTRAINT"])
    /\ pc' = "generated"
    /\ UNCHANGED <<outside_vars, client_vars>>
    /\ UNCHANGED <<input_vars, error, processor_vars, segment_vars, header,
                   time_order, time_slot_map, tiers, written>>

\* EAFGenerator.write_to_file: the tree is written, or creating the
\* directory or the file fails with OSError, before the file is opened or
\* after a part of it was written.
write_to_file ==
    /\ pc = "generated"
    /\ trace' = Append(trace, "write_to_file")
    /\ \E os_error \in BOOLEAN :
          IF os_error
          THEN /\ pc' = "failed"
               /\ error' = Some("OSError")
               /\ output_file' \in {output_file, "partial"}
               /\ UNCHANGED written
          ELSE /\ written' = Some([root |-> Get(root),
                                   header |-> Get(header),
                                   time_order |-> Get(time_order),
                                   tiers |-> tiers])
               /\ output_file' = "written"
               /\ pc' = "written"
               /\ UNCHANGED error
    /\ UNCHANGED <<main_vars, client_vars>>
    /\ UNCHANGED <<input_vars, processor_vars, segment_vars, document_vars>>

\* Faulty variant: an existing output is skipped whether or not --force is
\* given.
SkipsEveryExisting(output_exists, force_) == output_exists

\* `output_path.exists() and not force`
Skips(output_exists, force_) == output_exists /\ ~force_

\* Faulty variant: the processor's data is classified without being loaded.
EntryPointPastLoad(skip) == IF skip THEN "skipped" ELSE "loaded"

\* Where process_file goes after the check of the output path: it returns,
\* or constructs the processor and calls load_and_validate_data.
EntryPoint(skip) == IF skip THEN "skipped" ELSE "start"

\* Faulty variant: only ValueError and its subclass JSONDecodeError are caught.
CaughtValueErrors(exception) == exception \in {"ValueError", "JSONDecodeError"}

\* `except Exception` in process_file: every exception class of the model is
\* a subclass of Exception.
Caught(exception) ==
    exception \in {"ValueError", "JSONDecodeError", "OSError", "KeyError"}

\* main's loop hands the next file of the directory to process_file, which
\* returns at once if the output exists and --force is not given, and else
\* constructs a new processor (and later a new generator) for the file.
process_file ==
    /\ pc = "idle"
    /\ exit_code = None
    /\ handed < Len(directory)
    /\ LET json_file == directory[handed + 1]
       IN  /\ json_file_state' = json_file.json_file_state
           /\ json_doc' = json_file.json_doc
           /\ json_file_path' = <<NumberedJson(handed + 1)>>
           /\ pc' = EntryPoint(Skips(json_file.output_exists, force))
           /\ output_file' = IF json_file.output_exists THEN "earlier"
                                                        ELSE "absent"
    /\ handed' = handed + 1
    /\ error' = None
    /\ diarization_data' = <<>>
    /\ operator_speaker' = ""
    /\ caller_speakers' = {}
    /\ operator_segments' = <<>>
    /\ caller_segments' = <<>>
    /\ root' = None
    /\ header' = None
    /\ time_order' = None
    /\ time_slot_map' = <<>>
    /\ tiers' = <<>>
    /\ written' = None
    /\ trace' = <<>>
    /\ UNCHANGED <<media_dir, os_sep, fs, directory, finished, force,
                   exit_code, client_vars>>

\* process_file returns to main: normally, after the skip, or after its
\* handler caught and logged the exception.  An exception it did not catch
\* would reach main's own handler, which calls sys.exit(1).
process_file_return ==
    /\ pc \in {"skipped", "written", "failed"}
    /\ finished' = Append(finished, [json_file |-> directory[handed],
                                     outcome |-> pc,
                                     error |-> error,
                                     written |-> written])
    /\ IF pc = "failed" /\ ~Caught(Get(error))
       THEN exit_code' = Some(1)
       ELSE UNCHANGED exit_code
    /\ pc' = "idle"
    /\ UNCHANGED <<input_vars, processor_vars, segment_vars, document_vars,
                   error, written, output_file, trace, directory, handed,
                   force, client_vars>>

\* The loop is exhausted and main returns.
main_return ==
    /\ pc = "idle"
    /\ exit_code = None
    /\ handed = Len(directory)
    /\ exit_code' = Some(0)
    /\ UNCHANGED <<input_vars, processor_vars, segment_vars, document_vars,
                   pc, error, written, output_file, trace, directory, handed,
                   finished, force, client_vars>>

\* The generated document.
Document ==
    [root |-> root, header |-> header, time_order |-> time_order,
     tiers |-> tiers]

\* list(a_set): its elements once each, in an order that is not specified.
ListsOf(set) ==
    {list \in [1 .. Cardinality(set) -> set] :
        \A i, j \in 1 .. Cardinality(set) : list[i] = list[j] => i = j}

\* A user calls process_diarization_data without load_and_validate_data
\* before it, on a new processor or on one that holds earlier data.
client_skips_load ==
    /\ pc = "start"
    /\ calls < MaxCalls
    /\ calls' = calls + 1
    /\ pc' = "loaded"
    /\ UNCHANGED <<input_vars, outside_vars, processor_vars, segment_vars,
                   document_vars, error, written, trace, speaker_info,
                   previous_document>>

\* The file's content is replaced and the user calls load_and_validate_data
\* again on the same processor, before any generator was made of its lists.
client_loads_again ==
    /\ pc = "processed"
    /\ root = None
    /\ previous_document = None
    /\ calls < MaxCalls
    /\ calls' = calls + 1
    /\ json_doc' \in ReloadDocs
    /\ pc' = "start"
    /\ UNCHANGED <<json_file_state, json_file_path, media_dir, os_sep, fs,
                   outside_vars, processor_vars, segment_vars, document_vars,
                   error, written, trace, speaker_info, previous_document>>

\* DiarizationProcessor.get_speaker_info, called after classification.
get_speaker_info ==
    /\ pc = "processed"
    /\ calls < MaxCalls
    /\ calls' = calls + 1
    /\ \E callers \in ListsOf(caller_speakers) :
          speaker_info' = Some([operator |-> operator_speaker,
                                callers |-> callers])
    /\ trace' = Append(trace, "get_speaker_info")
    /\ UNCHANGED <<input_vars, outside_vars, processor_vars, segment_vars,
                   document_vars, pc, error, written, previous_document>>

\* The user keeps the document and calls generate_eaf again on the same
\* generator: its attributes, time_slot_map among them, are as the first
\* call left them.
client_generates_again ==
    /\ pc = "generated"
    /\ calls < MaxCalls
    /\ calls' = calls + 1
    /\ previous_document' = Some([generator |-> "same", document |-> Document])
    /\ pc' = "processed"
    /\ UNCHANGED <<input_vars, outside_vars, processor_vars, segment_vars,
                   document_vars, error, written, trace, speaker_info>>

\* The user keeps the document and constructs a second generator from the
\* same two lists.
client_new_generator ==
    /\ pc = "generated"
    /\ calls < MaxCalls
    /\ calls' = calls + 1
    /\ previous_document' = Some([generator |-> "new", document |-> Document])
    /\ root' = None
    /\ header' = None
    /\ time_order' = None
    /\ time_slot_map' = <<>>
    /\ tiers' = <<>>
    /\ pc' = "processed"
    /\ UNCHANGED <<input_vars, outside_vars, processor_vars, segment_vars,
                   error, written, trace, speaker_info>>

Next ==
    \/ load_and_validate_data
    \/ process_diarization_data
    \/ _create_header
    \/ _create_time_order
    \/ _create_tiers
    \/ _create_linguistic_types
    \/ _create_constraints
    \/ write_to_file

Spec == Init /\ [][Next]_vars

SpecMedia == InitMedia /\ [][Next]_vars

SpecValidate == InitValidate /\ [][Next]_vars

SpecSigned == InitSigned /\ [][Next]_vars

\* The methods as a direct user of the classes may call them.
NextClient ==
    \/ load_and_validate_data
    \/ process_diarization_data
    \/ _create_header
    \/ _create_time_order
    \/ _create_tiers
    \/ _create_linguistic_types
    \/ _create_constraints
    \/ write_to_file
    \/ client_skips_load
    \/ client_loads_again
    \/ get_speaker_info
    \/ client_generates_again
    \/ client_new_generator

SpecClient == InitClient /\ [][NextClient]_vars

\* Batch mode.  main is a sequential program: a step that can be taken is
\* taken.
NextBatch ==
    \/ process_file
    \/ load_and_validate_data
    \/ process_diarization_data
    \/ _create_header
    \/ _create_time_order
    \/ _create_tiers
    \/ _create_linguistic_types
    \/ _create_constraints
    \/ write_to_file
    \/ process_file_return
    \/ main_return

SpecBatch == InitBatch /\ [][NextBatch]_vars /\ WF_vars(NextBatch)

\* ------------------------------------------------------------- properties

\* What the formulas below read from the state.
TimeSlots == IF time_order = None THEN <<>> ELSE Get(time_order)
TotalSegments == Len(operator_segments) + Len(caller_segments)

\* generate_eaf has returned (the write may have failed afterwards).
AfterGenerate ==
    \/ pc \in {"generated", "written"}
    \/ (pc = "failed" /\ error = Some("OSError")
            /\ json_file_state = "document")

\* process_diarization_data has returned its two lists.
Classified ==
    \/ pc \in {"processed", "header", "time_order", "tiers",
               "linguistic_types", "generated", "written"}
    \/ (pc = "failed" /\ error = Some("OSError")
            /\ json_file_state = "document")

\* _create_tiers has built both tiers.
TiersBuilt == Len(tiers) = 2

TierSegments(t) == IF t = 1 THEN operator_segments ELSE caller_segments

\* The raw start and end values of all segments of both lists.
BoundaryValues ==
    {operator_segments[k].start : k \in 1 .. Len(operator_segments)}
        \cup {operator_segments[k].end : k \in 1 .. Len(operator_segments)}
        \cup {caller_segments[k].start : k \in 1 .. Len(caller_segments)}
        \cup {caller_segments[k].end : k \in 1 .. Len(caller_segments)}

AllBoundariesDistinct == Cardinality(BoundaryValues) = 2 * TotalSegments

\* A raw timestamp truncated to whole milliseconds (timestamps here are >= 0).
TruncatedMillis(t) == t \div TicksPerMs

\* The TIME_VALUEs of the TIME_SLOT entries that carry an id.
SlotValues(id) ==
    {TimeSlots[i].TIME_VALUE :
        i \in {j \in 1 .. Len(TimeSlots) : TimeSlots[j].TIME_SLOT_ID = id}}

\* Every (raw boundary value, slot reference written for it) of both tiers.
BoundaryRefs ==
    UNION {UNION {{[raw |-> TierSegments(t)[k].start,
                    ref |-> tiers[t].annotations[k].TIME_SLOT_REF1],
                   [raw |-> TierSegments(t)[k].end,
                    ref |-> tiers[t].annotations[k].TIME_SLOT_REF2]} :
                  k \in 1 .. Len(tiers[t].annotations)} :
           t \in 1 .. Len(tiers)}

RECURSIVE IsSubsequence(_, _)
IsSubsequence(a, b) ==
    IF Len(a) = 0 THEN TRUE
    ELSE IF Len(b) = 0 THEN FALSE
    ELSE IF Head(a) = Head(b) THEN IsSubsequence(Tail(a), Tail(b))
    ELSE IsSubsequence(a, Tail(b))

SeqToBag(seq) ==
    [x \in {seq[i] : i \in 1 .. Len(seq)} |->
        Cardinality({i \in 1 .. Len(seq) : seq[i] = x})]

\* C1 as stated: after generate_eaf no two TIME_SLOT entries have the same
\* TIME_VALUE under different ids, and no id is on more than one entry.
C1_NoEqualValueUnderTwoIds ==
    AfterGenerate =>
        \A i, j \in 1 .. Len(TimeSlots) :
            /\ (TimeSlots[i].TIME_VALUE = TimeSlots[j].TIME_VALUE
                    => TimeSlots[i].TIME_SLOT_ID = TimeSlots[j].TIME_SLOT_ID)
            /\ (i # j => TimeSlots[i].TIME_SLOT_ID # TimeSlots[j].TIME_SLOT_ID)

\* C1 amended: after generate_eaf no TIME_SLOT_ID is on more than one entry
\* of TIME_ORDER (entries of equal TIME_VALUE may carry different ids).
C1_SlotIdsUnique ==
    AfterGenerate =>
        \A i, j \in 1 .. Len(TimeSlots) :
            i # j => TimeSlots[i].TIME_SLOT_ID # TimeSlots[j].TIME_SLOT_ID

\* C1 witness: a table generated from segments that share a raw boundary
\* value, with two entries of one TIME_VALUE under different ids.
C1_Witness ==
    /\ AfterGenerate
    /\ ~AllBoundariesDistinct
    /\ \E i, j \in 1 .. Len(TimeSlots) :
          /\ TimeSlots[i].TIME_VALUE = TimeSlots[j].TIME_VALUE
          /\ TimeSlots[i].TIME_SLOT_ID # TimeSlots[j].TIME_SLOT_ID

\* C2 as stated: the number of TIME_SLOT entries is at most twice the number
\* of segments and equals it exactly when all boundary values are distinct.
C2_CountIsBoundIffDistinct ==
    AfterGenerate =>
        /\ Len(TimeSlots) <= 2 * TotalSegments
        /\ (Len(TimeSlots) = 2 * TotalSegments <=> AllBoundariesDistinct)

\* C2 amended: the number of TIME_SLOT entries is twice the number of
\* segments for every input, also when boundary values coincide.
C2_CountIsTwicePerSegment ==
    AfterGenerate => Len(TimeSlots) = 2 * TotalSegments

\* C2 witness: a table generated from segments that share a boundary value.
C2_Witness ==
    /\ AfterGenerate
    /\ TotalSegments >= 2
    /\ ~AllBoundariesDistinct

\* C3: after generate_eaf on n segments TIME_ORDER has 2n TIME_SLOT entries
\* and the k-th of them, in document order, has the id "ts<k>".
C3_TwoSlotsPerSegmentNumberedInOrder ==
    AfterGenerate =>
        /\ Len(TimeSlots) = 2 * TotalSegments
        /\ \A k \in 1 .. Len(TimeSlots) :
              TimeSlots[k].TIME_SLOT_ID = <<"ts", k>>

\* C3 witness: a table of six entries generated from three segments.
C3_Witness ==
    /\ AfterGenerate
    /\ TotalSegments = 3
    /\ Len(TimeSlots) = 6

\* C4 as stated: the ids are numbered in ascending order of TIME_VALUE: of
\* two entries the one with the smaller number has no greater value.
C4_IdsAscendWithValue ==
    AfterGenerate =>
        \A i, j \in 1 .. Len(TimeSlots) :
            TimeSlots[i].TIME_SLOT_ID[2] < TimeSlots[j].TIME_SLOT_ID[2]
                => TimeSlots[i].TIME_VALUE <= TimeSlots[j].TIME_VALUE

\* C4 witness: a table generated from two segments of which one starts
\* before the other has ended.
C4_Witness ==
    /\ AfterGenerate
    /\ \E k \in 1 .. Len(operator_segments), m \in 1 .. Len(caller_segments) :
          /\ operator_segments[k].start < caller_segments[m].start
          /\ caller_segments[m].start < operator_segments[k].end

\* C5: every annotation's TIME_SLOT_REF1 and TIME_SLOT_REF2 resolve in
\* TIME_ORDER to exactly the TIME_VALUEs that are its segment's start and end
\* truncated to whole milliseconds.
C5_RefsResolveToTruncatedBounds ==
    TiersBuilt =>
        \A t \in 1 .. Len(tiers) :
            /\ Len(tiers[t].annotations) = Len(TierSegments(t))
            /\ \A k \in 1 .. Len(tiers[t].annotations) :
                  /\ SlotValues(tiers[t].annotations[k].TIME_SLOT_REF1)
                        = {TruncatedMillis(TierSegments(t)[k].start)}
                  /\ SlotValues(tiers[t].annotations[k].TIME_SLOT_REF2)
                        = {TruncatedMillis(TierSegments(t)[k].end)}

\* C5 witness: tiers built from segments that share a boundary value, one of
\* them starting off a whole millisecond.
C5_Witness ==
    /\ TiersBuilt
    /\ ~AllBoundariesDistinct
    /\ \E k \in 1 .. Len(caller_segments) :
          caller_segments[k].start % TicksPerMs # 0

\* C6: two segment boundaries (start or end, in either tier) of the same raw
\* value are referenced through the same TIME_SLOT_ID.
C6_EqualBoundariesShareSlotId ==
    TiersBuilt =>
        \A x, y \in BoundaryRefs : x.raw = y.raw => x.ref = y.ref

\* C6 witness: tiers built where an operator segment ends at the raw value at
\* which a caller segment starts.
C6_Witness ==
    /\ TiersBuilt
    /\ \E k \in 1 .. Len(operator_segments), m \in 1 .. Len(caller_segments) :
          operator_segments[k].end = caller_segments[m].start

\* C7: the slot lookup never misses: when the tiers are about to be built
\* every segment's start and end is a key of time_slot_map, no KeyError is
\* raised, and every reference written is the id of an entry of TIME_ORDER.
C7_LookupNeverMisses ==
    /\ error # Some("KeyError")
    /\ pc = "time_order" =>
          BoundaryValues \subseteq DOMAIN time_slot_map
    /\ TiersBuilt =>
          \A x \in BoundaryRefs :
              \E i \in 1 .. Len(TimeSlots) : TimeSlots[i].TIME_SLOT_ID = x.ref

\* C7 witness: both tiers built, each with an annotation.
C7_Witness ==
    /\ pc = "tiers"
    /\ Len(tiers[1].annotations) > 0
    /\ Len(tiers[2].annotations) > 0

\* C8: the operator list and the caller list together hold exactly the loaded
\* segments (as a multiset) and each is a subsequence of the loaded list.
C8_StablePartition ==
    Classified =>
        /\ SeqToBag(operator_segments) (+) SeqToBag(caller_segments)
              = SeqToBag(diarization_data)
        /\ IsSubsequence(operator_segments, diarization_data)
        /\ IsSubsequence(caller_segments, diarization_data)

\* C8 witness: three loaded segments, the first and the last equal and of the
\* operator, a caller's between them.
C8_Witness ==
    /\ Classified
    /\ Len(diarization_data) = 3
    /\ diarization_data[1] = diarization_data[3]
    /\ Len(operator_segments) = 2
    /\ Len(caller_segments) = 1

\* C9: the operator label is the speaker of the first loaded segment; every
\* operator segment has it, every caller segment has another speaker, and the
\* caller list is empty when all segments have one speaker.
C9_OperatorIsFirstSpeaker ==
    Classified =>
        /\ operator_speaker = diarization_data[1].speaker
        /\ \A k \in 1 .. Len(operator_segments) :
              operator_segments[k].speaker = diarization_data[1].speaker
        /\ \A k \in 1 .. Len(caller_segments) :
              caller_segments[k].speaker # diarization_data[1].speaker
        /\ ((\A k \in 1 .. Len(diarization_data) :
                diarization_data[k].speaker = diarization_data[1].speaker)
              => Len(caller_segments) = 0)

\* C9 witness: the first loaded segment starts later than the second, which
\* has another speaker.
C9_Witness ==
    /\ Classified
    /\ Len(diarization_data) >= 2
    /\ diarization_data[1].start > diarization_data[2].start
    /\ diarization_data[1].speaker # diarization_data[2].speaker

\* The companion media file does not exist.
MediaMissing == WavPath(json_file_path, media_dir) \notin fs

\* C10 as stated: when the companion media file does not exist, MEDIA_URL
\* and RELATIVE_MEDIA_URL of the generated document are both empty.
C10_BothUrlsEmptyWhenMediaMissing ==
    (header # None /\ MediaMissing) =>
        /\ Get(header).MEDIA_URL = <<>>
        /\ Get(header).RELATIVE_MEDIA_URL = <<>>

\* C10 amended: when the companion media file does not exist, MEDIA_URL is
\* empty and RELATIVE_MEDIA_URL is not: it is still the computed path.
C10_MediaUrlEmptyWhenMediaMissing ==
    (header # None /\ MediaMissing) =>
        /\ Get(header).MEDIA_URL = <<>>
        /\ Get(header).RELATIVE_MEDIA_URL # <<>>

\* C10 witness: a document built and written while the media file is missing
\* from the media directory that was given.
C10_Witness ==
    /\ pc = "written"
    /\ media_dir # None
    /\ MediaMissing
    /\ Get(written).header.MEDIA_URL = <<>>
    /\ Len(Get(written).root) = 9

\* C11 as stated: when the companion media file does not exist and no media
\* directory is given, MEDIA_URL is empty and RELATIVE_MEDIA_URL is "./"
\* followed by the stem of the JSON file name and ".wav", in every directory.
C11_MissingMediaGivesDotSlashStemWav ==
    (header # None /\ media_dir = None /\ MediaMissing) =>
        /\ Get(header).MEDIA_URL = <<>>
        /\ Get(header).RELATIVE_MEDIA_URL =
              <<DOT, SLASH>> \o Stem(NameOf(json_file_path)) \o WAV_SUFFIX

\* C11 witness: a header built with no media directory and no media file for
\* a JSON file whose name begins with a dot; the URL lacks the "./".
C11_Witness ==
    /\ header # None
    /\ media_dir = None
    /\ MediaMissing
    /\ NameOf(json_file_path) = HIDDEN_JSON
    /\ Get(header).MEDIA_URL = <<>>
    /\ Get(header).RELATIVE_MEDIA_URL = Stem(HIDDEN_JSON) \o WAV_SUFFIX

\* The URL begins with "./" or "../".
HasRelativePrefix(url) ==
    \/ Len(url) >= 2 /\ SubSeq(url, 1, 2) = <<DOT, SLASH>>
    \/ Len(url) >= 3 /\ SubSeq(url, 1, 3) = <<DOT, DOT, SLASH>>

\* C12 as stated: a non-empty RELATIVE_MEDIA_URL begins with "./" or "../"
\* and holds no backslash, for every JSON file name and media directory.
C12_RelativeUrlPrefixedAndPosix ==
    (header # None /\ Get(header).RELATIVE_MEDIA_URL # <<>>) =>
        LET url == Get(header).RELATIVE_MEDIA_URL
        IN  /\ HasRelativePrefix(url)
            /\ \A k \in 1 .. Len(url) : url[k] # BACKSLASH

\* C12 witness: a media directory whose name begins with a dot, below the
\* JSON file's directory, on a platform whose separator is the backslash; the
\* URL has forward slashes only and neither prefix.
C12_Witness ==
    /\ header # None
    /\ os_sep = BACKSLASH
    /\ media_dir # None
    /\ Len(Get(media_dir)) > Len(ParentOf(json_file_path))
    /\ LET url == Get(header).RELATIVE_MEDIA_URL
       IN  /\ ~HasRelativePrefix(url)
           /\ url[1] = DOT
           /\ \E k \in 1 .. Len(url) : url[k] = SLASH
           /\ \A k \in 1 .. Len(url) : url[k] # BACKSLASH

\* The ANNOTATION_IDs of one document, Operator tier first.
AnnotationIds ==
    [k \in 1 .. Len(tiers[1].annotations) |->
        tiers[1].annotations[k].ANNOTATION_ID]
    \o [k \in 1 .. Len(tiers[2].annotations) |->
        tiers[2].annotations[k].ANNOTATION_ID]

\* C16: each tier has one annotation per segment of its source list, in that
\* list's order; the i-th (1-based) is "o<i>" in the Operator tier and "c<i>"
\* in the Caller tier; no ANNOTATION_ID occurs twice in the document.
C16_AnnotationsInOrderWithLocalIds ==
    TiersBuilt =>
        /\ \A t \in 1 .. 2 :
              LET annotations == tiers[t].annotations
                  segments == TierSegments(t)
              IN  /\ Len(annotations) = Len(segments)
                  /\ \A i \in 1 .. Len(annotations) :
                        /\ annotations[i].ANNOTATION_ID =
                              <<IF t = 1 THEN "o" ELSE "c", i>>
                        /\ annotations[i].TIME_SLOT_REF1 =
                              time_slot_map[segments[i].start]
                        /\ annotations[i].TIME_SLOT_REF2 =
                              time_slot_map[segments[i].end]
        /\ \A i, j \in 1 .. Len(AnnotationIds) :
              AnnotationIds[i] = AnnotationIds[j] => i = j

\* C16 witness: a document with two Operator annotations over different
\* segments and a Caller annotation.
C16_Witness ==
    /\ TiersBuilt
    /\ Len(tiers[1].annotations) = 2
    /\ operator_segments[1] # operator_segments[2]
    /\ tiers[1].annotations[1].TIME_SLOT_REF1
          # tiers[1].annotations[2].TIME_SLOT_REF1
    /\ Len(tiers[2].annotations) = 1
    /\ AnnotationIds = << <<"o", 1>>, <<"o", 2>>, <<"c", 1>> >>

\* The defects of a diarization entry that C13 names: a key is missing, the
\* speaker is not a non-empty string, start or end is not a number, or
\* start >= end.
LacksKey(entry) == ~IsDict(entry) \/ ~(EntryKeys \subseteq DOMAIN entry)
SpeakerNotNonEmptyString(entry) ==
    entry.speaker.type # "str" \/ entry.speaker.str = ""
BoundNotNumeric(entry) ==
    entry.start.type # "number" \/ entry.end.type # "number"
Defective(entry) ==
    \/ LacksKey(entry)
    \/ SpeakerNotNonEmptyString(entry)
    \/ BoundNotNumeric(entry)
    \/ entry.start.num >= entry.end.num

\* C13 as stated: a document with a defective entry is rejected by
\* load_and_validate_data with a validation error before classification
\* runs; diarization_data stays as it was and no lists are produced.
C13_DefectiveEntryRejected ==
    (/\ pc # "start"
     /\ json_file_state = "document"
     /\ \E k \in 1 .. Len(json_doc) : Defective(json_doc[k])) =>
        /\ pc = "failed"
        /\ error = Some("ValueError")
        /\ trace = <<"load_and_validate_data">>
        /\ diarization_data = <<>>
        /\ operator_segments = <<>>
        /\ caller_segments = <<>>

\* C13 witness: a document whose only entry has the empty string as its
\* speaker has been loaded, classified and written.
C13_Witness ==
    /\ pc = "written"
    /\ Len(json_doc) = 1
    /\ IsDict(json_doc[1])
    /\ DOMAIN json_doc[1] = EntryKeys
    /\ json_doc[1].speaker = JStr("")
    /\ ~BoundNotNumeric(json_doc[1])
    /\ operator_speaker = ""
    /\ Len(operator_segments) = 1

\* A file that none of the failures befalls that C15 names, the write error
\* apart: it parses to a document whose diarization list is non-empty and
\* has no defective entry.
Processable(json_file) ==
    /\ json_file.json_file_state = "document"
    /\ Len(json_file.json_doc) > 0
    /\ \A k \in 1 .. Len(json_file.json_doc) :
          ~Defective(json_file.json_doc[k])

\* process_file has been invoked once for each file of the directory, in the
\* directory's order, and has returned each time.
EveryFileHandedOnce ==
    /\ Len(finished) = Len(directory)
    /\ \A k \in 1 .. Len(directory) : finished[k].json_file = directory[k]

\* C15 as stated: when the batch run is over, process_file has been invoked
\* once for every JSON file of the directory, and every valid file that
\* came after a failed one (and whose own write did not fail) has its
\* output written.
C15_EveryValidFileWritten ==
    exit_code # None =>
        /\ EveryFileHandedOnce
        /\ \A k \in 1 .. Len(finished) :
              (/\ \E j \in 1 .. k - 1 : finished[j].outcome = "failed"
               /\ Processable(directory[k])
               /\ finished[k].error # Some("OSError")) =>
                    /\ finished[k].outcome = "written"
                    /\ finished[k].written # None

\* C15 amended: every batch run ends with main returning normally after
\* process_file was invoked once for every JSON file of the directory,
\* whatever failed before it; every valid file whose own write did not fail
\* has its output written, unless that output existed already and --force
\* was not given, in which case the file is skipped.
C15_EveryValidFileWrittenOrSkipped ==
    <>(/\ exit_code = Some(0)
       /\ EveryFileHandedOnce
       /\ \A k \in 1 .. Len(finished) :
             IF Skips(directory[k].output_exists, force)
             THEN /\ finished[k].outcome = "skipped"
                  /\ finished[k].written = None
             ELSE (/\ Processable(directory[k])
                   /\ finished[k].error # Some("OSError")) =>
                        /\ finished[k].outcome = "written"
                        /\ finished[k].written # None)

\* C15 witness: the run is over; the first file failed validation, the second
\* was then processed and written.
C15_Witness ==
    /\ exit_code = Some(0)
    /\ Len(directory) = 2
    /\ EveryFileHandedOnce
    /\ finished[1].outcome = "failed"
    /\ finished[1].error = Some("ValueError")
    /\ Processable(directory[2])
    /\ finished[2].outcome = "written"
    /\ Len(Get(finished[2].written).time_order) = 4

\* The methods process_file calls, in program order.
STEPS ==
    <<"load_and_validate_data", "process_diarization_data", "generate_eaf",
      "write_to_file">>

\* C19: the methods process_file has called are an initial part of STEPS
\* (in order, each at most once); write_to_file is called only after data
\* was loaded, classified and a complete document generated with nothing
\* raised; a failure is caught in process_file with its exception recorded,
\* and main's own handler never runs.
C19_StepsInOrderFailureCaught ==
    /\ Len(trace) <= Len(STEPS)
    /\ trace = SubSeq(STEPS, 1, Len(trace))
    /\ Len(trace) = Len(STEPS) =>
          /\ pc \in {"written", "failed", "idle"}
          /\ error \in {None, Some("OSError")}
          /\ Len(diarization_data) > 0
          /\ TotalSegments = Len(diarization_data)
          /\ TiersBuilt
          /\ Len(Get(root)) = 5 + Len(CONSTRAINT_STEREOTYPES)
    /\ pc = "written" => Len(trace) = Len(STEPS) /\ error = None
    /\ pc = "failed" => error # None /\ Len(trace) >= 1
    /\ \A k \in 1 .. Len(finished) :
          finished[k].outcome = "failed" => finished[k].error # None
    /\ exit_code # Some(1)

\* C19 witness: a file has been written after all four steps, in a run whose
\* preceding file failed in load_and_validate_data and was left behind.
C19_Witness ==
    /\ pc = "written"
    /\ trace = STEPS
    /\ Len(finished) = 1
    /\ finished[1].outcome = "failed"
    /\ finished[1].error = Some("JSONDecodeError")
    /\ exit_code = None

\* C14: a call of process_diarization_data on an empty diarization_data
\* (never loaded, or loaded from an empty list) raises ValueError and
\* returns no lists; operator_speaker and caller_speakers keep their values.
C14_EmptyDataRaisesSpeakersKept ==
    [][(/\ trace' = Append(trace, "process_diarization_data")
        /\ Len(diarization_data) = 0) =>
            /\ pc' = "failed"
            /\ error' = Some("ValueError")
            /\ operator_speaker' = operator_speaker
            /\ caller_speakers' = caller_speakers
            /\ operator_segments' = operator_segments
            /\ caller_segments' = caller_segments]_vars

\* C14 witness: a processor that had classified a list with two speakers has
\* loaded an empty list, and process_diarization_data has raised: the
\* speakers of the earlier list are still there.
C14_Witness ==
    /\ pc = "failed"
    /\ error = Some("ValueError")
    /\ trace = <<"load_and_validate_data", "process_diarization_data",
                 "load_and_validate_data", "process_diarization_data">>
    /\ json_doc = <<>>
    /\ diarization_data = <<>>
    /\ operator_speaker # ""
    /\ caller_speakers # {}

\* C17: with the clock and the id source fixed, a document generated from
\* the same two lists as the document before it, by the same generator (its
\* time_slot_map carried over) or by a new one, is identical to it.
C17_RegeneratedDocumentIdentical ==
    (pc = "generated" /\ previous_document # None) =>
        Document = Get(previous_document).document

\* C17 witness: generate_eaf has returned for the second time on the same
\* generator, for lists with three segments that repeat a boundary value.
C17_Witness ==
    /\ pc = "generated"
    /\ previous_document # None
    /\ Get(previous_document).generator = "same"
    /\ Len(Get(time_order)) = 6
    /\ Cardinality(DOMAIN time_slot_map) = 3
    /\ Len(Get(Get(previous_document).document.time_order)) = 6

\* C20: once process_diarization_data has returned, the operator label is no
\* caller label, the caller labels are exactly the speakers of the loaded
\* segments other than the operator, every loaded segment's speaker is the
\* operator or a caller, and get_speaker_info returns this assignment.
C20_SpeakersDisjointExhaustive ==
    Classified =>
        /\ operator_speaker \notin caller_speakers
        /\ caller_speakers =
              {diarization_data[k].speaker : k \in 1 .. Len(diarization_data)}
                  \ {operator_speaker}
        /\ \A k \in 1 .. Len(diarization_data) :
              \/ diarization_data[k].speaker = operator_speaker
              \/ diarization_data[k].speaker \in caller_speakers
        /\ (Len(trace) > 0 /\ trace[Len(trace)] = "get_speaker_info") =>
              LET info == Get(speaker_info)
              IN  /\ info.operator = operator_speaker
                  /\ {info.callers[i] : i \in 1 .. Len(info.callers)}
                        = caller_speakers
                  /\ Len(info.callers) = Cardinality(caller_speakers)

\* C20 witness: get_speaker_info has just returned an operator and two
\* callers for a list in which the operator speaks again after a caller.
C20_Witness ==
    /\ pc = "processed"
    /\ trace[Len(trace)] = "get_speaker_info"
    /\ Len(Get(speaker_info).callers) = 2
    /\ Len(diarization_data) = 3
    /\ Cardinality(caller_speakers) = 2
    /\ Get(speaker_info).operator = diarization_data[1].speaker

\* The segments of both lists in the order _create_time_order visits them.
SegmentsInStartOrder == SortedByStart(operator_segments \o caller_segments)

\* v is the whole number of milliseconds next to t ticks on the side of zero.
IsTowardZero(v, t) ==
    IF t >= 0
    THEN v * TicksPerMs <= t /\ t < (v + 1) * TicksPerMs
    ELSE (v - 1) * TicksPerMs < t /\ t <= v * TicksPerMs

\* v is the greatest whole number of milliseconds not above t ticks.
IsFloor(v, t) == v * TicksPerMs <= t /\ t < (v + 1) * TicksPerMs

\* C18 as stated: every TIME_VALUE is the floor of the milliseconds of the
\* boundary it was made from, for every accepted boundary, negative ones
\* included.
C18_TimeValueIsFloor ==
    AfterGenerate =>
        /\ Len(TimeSlots) = 2 * Len(SegmentsInStartOrder)
        /\ \A k \in 1 .. Len(SegmentsInStartOrder) :
              /\ IsFloor(TimeSlots[2 * k - 1].TIME_VALUE,
                         SegmentsInStartOrder[k].start)
              /\ IsFloor(TimeSlots[2 * k].TIME_VALUE,
                         SegmentsInStartOrder[k].end)

\* C18: every TIME_VALUE is the milliseconds of the boundary it was made
\* from with the fraction dropped (truncation toward zero, as int() does),
\* for every accepted boundary, negative ones included; for a boundary that
\* is not negative this is the floor.
C18_TimeValueIsTruncation ==
    AfterGenerate =>
        /\ Len(TimeSlots) = 2 * Len(SegmentsInStartOrder)
        /\ \A k \in 1 .. Len(SegmentsInStartOrder) :
              LET segment == SegmentsInStartOrder[k]
                  v1 == TimeSlots[2 * k - 1].TIME_VALUE
                  v2 == TimeSlots[2 * k].TIME_VALUE
              IN  /\ IsTowardZero(v1, segment.start)
                  /\ IsTowardZero(v2, segment.end)
                  /\ segment.start >= 0 => IsFloor(v1, segment.start)
                  /\ segment.end >= 0 => IsFloor(v2, segment.end)

\* C18 witness: a document was generated from a segment that starts before
\* zero off a whole millisecond and ends after zero off a whole millisecond.
C18_Witness ==
    /\ pc = "written"
    /\ \E k \in 1 .. Len(SegmentsInStartOrder) :
          /\ SegmentsInStartOrder[k].start < 0
          /\ SegmentsInStartOrder[k].start % TicksPerMs /= 0
          /\ SegmentsInStartOrder[k].end > 0
          /\ SegmentsInStartOrder[k].end % TicksPerMs /= 0
          /\ ~IsFloor(TimeSlots[2 * k - 1].TIME_VALUE,
                      SegmentsInStartOrder[k].start)

\* The file of the process_file call in progress or just returned.
HandedFile == directory[handed]

\* The most recent process_file call has returned with this outcome.
Returned(outcome) == pc = "idle" /\ finished[handed].outcome = outcome

\* C21: when the output path exists and force is false, process_file returns
\* without loading the input, without classifying or generating and without
\* writing, and the existing output file is left as it was; with force true
\* the call is never skipped: the pipeline runs from load_and_validate_data
\* on, and when it has run through, the output path holds the newly
\* generated document.
C21_SkipLeavesOutputForceOverwrites ==
    (handed > 0 /\ HandedFile.output_exists) =>
        IF ~force
        THEN /\ pc \in {"skipped", "idle"}
             /\ pc = "idle" => Returned("skipped")
             /\ trace = <<>>
             /\ error = None
             /\ diarization_data = <<>>
             /\ operator_speaker = ""
             /\ caller_speakers = {}
             /\ operator_segments = <<>>
             /\ caller_segments = <<>>
             /\ root = None
             /\ header = None
             /\ time_order = None
             /\ tiers = <<>>
             /\ written = None
             /\ output_file = "earlier"
        ELSE /\ pc # "skipped"
             /\ pc = "idle" => (Returned("written") \/ Returned("failed"))
             /\ pc # "start" => /\ Len(trace) > 0
                                /\ trace[1] = "load_and_validate_data"
             /\ (pc = "written" \/ Returned("written")) =>
                    /\ trace = STEPS
                    /\ written = Some([root |-> Get(root),
                                       header |-> Get(header),
                                       time_order |-> Get(time_order),
                                       tiers |-> tiers])
                    /\ output_file = "written"

\* C21 witness: without --force, the second file of a directory is a valid
\* document of two entries whose output exists, and its call has been
\* skipped after the first file was processed and written.
C21_Witness ==
    /\ pc = "skipped"
    /\ ~force
    /\ handed = 2
    /\ finished[1].outcome = "written"
    /\ HandedFile.output_exists
    /\ HandedFile.json_file_state = "document"
    /\ Len(HandedFile.json_doc) = 2
    /\ output_file = "earlier"

====
